---- MODULE Spec2Model ----
(***************************************************************************)
(* porkDyn: a request-triggered dynamic-DNS updater.  One invocation of    *)
(* function_handler validates the query parameters, then for the IPv4 and  *)
(* the IPv6 address in turn looks the record up at the provider and        *)
(* creates or updates it.                                                  *)
(*                                                                         *)
(* Strings the program parses (qualified names, address literals) are      *)
(* sequences of one-character strings; Option<T> is a sequence of length   *)
(* 0 (None) or 1 (Some); messages are strings.                             *)
(***************************************************************************)
EXTENDS Integers, Sequences, FiniteSets, TLC

None == <<>>
Some(x) == <<x>>

--------------------------------------------------------------------------
(* Bounds of the model.                                                    *)

\* the provider accepts a create only while the zone holds fewer records
MaxRecords == 3
\* longest qualified name drawn for the Domain::new specification
MaxNameLen == 7
\* longest address literal drawn for the classification specification
MaxIpLen == 6

--------------------------------------------------------------------------
(* Strings.                                                                *)

RECURSIVE ToStr(_)
ToStr(s) == IF s = <<>> THEN "" ELSE Head(s) \o ToStr(Tail(s))

\* {:?} of a &str: the text in double quotes
Debug(s) == "\"" \o ToStr(s) \o "\""

\* str::split(c): the pieces between the separators, empty pieces included
RECURSIVE Split(_, _)
Split(s, c) ==
    IF s = <<>> THEN << <<>> >>
    ELSE IF Head(s) = c THEN << <<>> >> \o Split(Tail(s), c)
    ELSE LET r == Split(Tail(s), c)
         IN  << <<Head(s)>> \o Head(r) >> \o Tail(r)

\* [&str]::join(sep) on character sequences
RECURSIVE JoinChars(_, _)
JoinChars(parts, sep) ==
    IF parts = <<>> THEN <<>>
    ELSE IF Len(parts) = 1 THEN parts[1]
    ELSE parts[1] \o sep \o JoinChars(Tail(parts), sep)

--------------------------------------------------------------------------
(* domain.rs                                                               *)

MinParts == 3

DomainNewTwoParts(qualified_name) ==
    LET parts == Split(qualified_name, ".")
        n == Len(parts)
    IN  IF n < 2
        THEN [ok |-> FALSE,
              err |-> "Domain must have at least 3 parts (e.g., sub.example.com)"]
        ELSE IF \E i \in 1..n : parts[i] = <<>>
        THEN [ok |-> FALSE, err |-> "Domain contains empty parts"]
        ELSE [ok |-> TRUE,
              domain_name |-> parts[n - 1] \o <<".">> \o parts[n],
              subdomain |-> JoinChars(SubSeq(parts, 1, n - 2), <<".">>),
              qualified_name |-> qualified_name]

DomainNewNoEmptyCheck(qualified_name) ==
    LET parts == Split(qualified_name, ".")
        n == Len(parts)
    IN  IF n < MinParts
        THEN [ok |-> FALSE,
              err |-> "Domain must have at least 3 parts (e.g., sub.example.com)"]
        ELSE [ok |-> TRUE,
              domain_name |-> parts[n - 1] \o <<".">> \o parts[n],
              subdomain |-> JoinChars(SubSeq(parts, 1, n - 2), <<".">>),
              qualified_name |-> qualified_name]

DomainNew(qualified_name) ==
    LET parts == Split(qualified_name, ".")
        n == Len(parts)
    IN  IF n < MinParts
        THEN [ok |-> FALSE,
              err |-> "Domain must have at least 3 parts (e.g., sub.example.com)"]
        ELSE IF \E i \in 1..n : parts[i] = <<>>
        THEN [ok |-> FALSE, err |-> "Domain contains empty parts"]
        ELSE [ok |-> TRUE,
              domain_name |-> parts[n - 1] \o <<".">> \o parts[n],
              subdomain |-> JoinChars(SubSeq(parts, 1, n - 2), <<".">>),
              qualified_name |-> qualified_name]

--------------------------------------------------------------------------
(* ip_utils.rs                                                             *)

DecDigits == {"0", "1", "2", "3", "4", "5", "6", "7", "8", "9"}
HexDigits == DecDigits \cup {"a", "b", "c", "d", "e", "f",
                             "A", "B", "C", "D", "E", "F"}

DigitVal(c) ==
    CASE c = "0" -> 0 [] c = "1" -> 1 [] c = "2" -> 2 [] c = "3" -> 3
      [] c = "4" -> 4 [] c = "5" -> 5 [] c = "6" -> 6 [] c = "7" -> 7
      [] c = "8" -> 8 [] c = "9" -> 9

RECURSIVE DecVal(_)
DecVal(s) == IF s = <<>> THEN 0
             ELSE DecVal(SubSeq(s, 1, Len(s) - 1)) * 10 + DigitVal(s[Len(s)])

\* one octet of Ipv4Addr::from_str: 1 to 3 decimal digits, no leading zero,
\* value at most 255
IsOctet(s) ==
    /\ Len(s) \in 1..3
    /\ \A i \in 1..Len(s) : s[i] \in DecDigits
    /\ (Len(s) > 1 => s[1] /= "0")
    /\ DecVal(s) <= 255

IsIpv4(s) ==
    LET parts == Split(s, ".")
    IN  /\ Len(parts) = 4
        /\ \A i \in 1..4 : IsOctet(parts[i])

\* one group of Ipv6Addr::from_str: 1 to 4 hexadecimal digits
IsGroup(s) ==
    /\ Len(s) \in 1..4
    /\ \A i \in 1..Len(s) : s[i] \in HexDigits

\* the number of 16-bit groups a colon-separated run stands for, or -1 when
\* it is malformed; an embedded IPv4 address may end the run when mayV4
GroupCount(s, mayV4) ==
    IF s = <<>> THEN 0
    ELSE LET parts == Split(s, ":")
             n == Len(parts)
         IN  IF \A i \in 1..n : IsGroup(parts[i]) THEN n
             ELSE IF /\ mayV4
                     /\ \A i \in 1..(n - 1) : IsGroup(parts[i])
                     /\ IsIpv4(parts[n])
             THEN n + 1
             ELSE -1

\* the positions at which "::" starts
DoubleColons(s) == {i \in 1..(Len(s) - 1) : s[i] = ":" /\ s[i + 1] = ":"}

IsIpv6(s) ==
    LET dc == DoubleColons(s)
    IN  IF dc = {} THEN GroupCount(s, TRUE) = 8
        ELSE /\ Cardinality(dc) = 1
             /\ LET i == CHOOSE j \in dc : TRUE
                    head == GroupCount(SubSeq(s, 1, i - 1), FALSE)
                    tail == GroupCount(SubSeq(s, i + 2, Len(s)), TRUE)
                IN  /\ head >= 0
                    /\ tail >= 0
                    /\ head + tail <= 7

\* a parser that drops a zone id (%...) before parsing the address
validate_and_classify_ip_zone_id(ip_str) ==
    LET cut == {i \in 1..Len(ip_str) : ip_str[i] = "%"}
        addr == IF cut = {} THEN ip_str
                ELSE SubSeq(ip_str, 1,
                            (CHOOSE i \in cut : \A j \in cut : i <= j) - 1)
    IN  IF IsIpv4(ip_str) THEN [ok |-> TRUE, ip_type |-> "V4"]
        ELSE IF IsIpv6(addr) THEN [ok |-> TRUE, ip_type |-> "V6"]
        ELSE [ok |-> FALSE, err |-> "Invalid IP address: " \o ToStr(ip_str)]

validate_and_classify_ip(ip_str) ==
    IF IsIpv4(ip_str) THEN [ok |-> TRUE, ip_type |-> "V4"]
    ELSE IF IsIpv6(ip_str) THEN [ok |-> TRUE, ip_type |-> "V6"]
    ELSE [ok |-> FALSE, err |-> "Invalid IP address: " \o ToStr(ip_str)]

\* impl From<IpType> for RecordType
RecordTypeFrom(ip_type) == IF ip_type = "V4" THEN "A" ELSE "AAAA"

\* IpUpdate::new
IpUpdateNew(address, ip_type) ==
    [address |-> address, record_type |-> RecordTypeFrom(ip_type)]

--------------------------------------------------------------------------
(* The request and the provider's zone.                                    *)

RecordTypes == {"A", "AAAA"}

NameABC == <<"a", ".", "b", ".", "c">>
NameBC == <<"b", ".", "c">>
NameEmptyLabel == <<"a", ".", ".", "c">>
NameOther == <<"b", ".", "b", ".", "c">>

V4a == <<"1", ".", "1", ".", "1", ".", "1">>
V4b == <<"2", ".", "2", ".", "2", ".", "2">>
V4bad == <<"1", ".", "1", ".", "1">>
V6a == <<":", ":", "1">>
V6b == <<":", ":", "2">>
V6bad == <<":", ":", "g">>

\* the query parameters function_handler reads; each may be absent
AllRequests ==
    [apikey : {None, Some("key")},
     secretapikey : {None, Some("secret")},
     domain : {None, Some(NameABC), Some(NameBC), Some(NameEmptyLabel)},
     ip : {None, Some(V4a), Some(V4b), Some(V6a), Some(V4bad)},
     ipv6 : {None, Some(V6a), Some(V6b), Some(V4a), Some(V6bad)}]

\* a request that lacks a credential is drawn with one choice of the rest
Requests ==
    {r \in AllRequests :
        (r.apikey = None \/ r.secretapikey = None) =>
            r.domain = Some(NameABC) /\ r.ip = Some(V4a) /\ r.ipv6 = None}

Contents(type) == IF type = "A" THEN {V4a, V4b} ELSE {V6a, V6b}

\* give the records of a zone the ids 1, 2, ... in their order
Numbered(recs) ==
    [i \in 1..Len(recs) |->
        [id |-> i, name |-> recs[i].name, type |-> recs[i].type,
         content |-> recs[i].content]]

OptionalRecord(name, type) ==
    {<<>>} \cup {<<[name |-> name, type |-> type, content |-> c]>> :
                    c \in Contents(type)}

\* the zones an invocation may find: at most one record per name and type,
\* for the requested name and possibly for another host of the zone
InitZones ==
    {Numbered(o \o a \o b) :
        o \in OptionalRecord(NameOther, "A"),
        a \in OptionalRecord(NameABC, "A"),
        b \in OptionalRecord(NameABC, "AAAA")}

--------------------------------------------------------------------------
(* The provider, as the requests of api.rs address it.                     *)

\* a listing that leaves the type and the subdomain of the request aside and
\* returns every record of the domain
retrieveByDomain(z, domain_name, type, subdomain) == z

\* POST /dns/retrieveByNameType/{domain}/{type}/{subdomain}
retrieveByNameType(z, domain_name, type, subdomain) ==
    SelectSeq(z, LAMBDA r : /\ r.name = subdomain \o <<".">> \o domain_name
                            /\ r.type = type)

\* POST /dns/create/{domain} with CreateUpdateDnsRecordRequest
ProviderCreate(z, domain_name, body) ==
    Append(z, [id |-> Len(z) + 1,
               name |-> body.name \o <<".">> \o domain_name,
               type |-> body.record_type,
               content |-> body.content])

\* POST /dns/edit/{domain}/{id} with CreateUpdateDnsRecordRequest
ProviderEdit(z, domain_name, record_id, body) ==
    [i \in 1..Len(z) |->
        IF z[i].id = record_id
        THEN [id |-> z[i].id,
              name |-> body.name \o <<".">> \o domain_name,
              type |-> body.record_type,
              content |-> body.content]
        ELSE z[i]]

\* what a call can come back with: no decodable response (reqwest::Error),
\* or a response whose status is "ERROR" or "SUCCESS"
Replies == {"err", "ERROR", "SUCCESS"}

\* a write the provider answers with SUCCESS took effect, one it answers
\* with ERROR did not; a lost response says nothing
WriteOutcomes ==
    {o \in [applied : BOOLEAN, reply : Replies] :
        /\ o.reply = "SUCCESS" => o.applied
        /\ o.reply = "ERROR" => ~o.applied}

--------------------------------------------------------------------------
(* api.rs                                                                  *)

DEFAULT_TTL == 600

CreateUpdateDnsRecordRequestNew(credentials, subdomain, ip, record_type) ==
    [apikey |-> credentials.api_key,
     secret_api_key |-> credentials.secret_key,
     name |-> subdomain,
     record_type |-> record_type,
     content |-> ip,
     ttl |-> DEFAULT_TTL]

\* the first record of the response whose name is the qualified name
FirstNamed(records, qualified_name) ==
    LET hits == {i \in 1..Len(records) : records[i].name = qualified_name}
    IN  IF hits = {} THEN None
        ELSE Some(records[CHOOSE i \in hits : \A j \in hits : i <= j])

\* reply "err": send() or json() failed and `?` returns the error
get_existing_dns_record(dom, reply, records) ==
    IF reply = "err" THEN [ok |-> FALSE]
    ELSE IF reply = "SUCCESS" /\ records /= None
    THEN [ok |-> TRUE, val |-> FirstNamed(records[1], dom.qualified_name)]
    ELSE [ok |-> TRUE, val |-> None]

\* a decoded response of either status ends in Ok(())
update_dns_record(reply) ==
    IF reply = "err" THEN [ok |-> FALSE] ELSE [ok |-> TRUE]

create_dns_record(reply) ==
    IF reply = "err" THEN [ok |-> FALSE] ELSE [ok |-> TRUE]

--------------------------------------------------------------------------
(* http_handler.rs                                                         *)

\* the JSON body {"message": message} is kept as the value it encodes
json_response(status_code, message) ==
    [status |-> status_code,
     content_type |-> "application/json",
     body |-> [message |-> message]]

\* the messages put together without the separator
RECURSIVE concat(_, _)
concat(msgs, sep) ==
    IF msgs = <<>> THEN "" ELSE msgs[1] \o concat(Tail(msgs), sep)

\* [String]::join(sep) on messages
RECURSIVE join(_, _)
join(msgs, sep) ==
    IF msgs = <<>> THEN ""
    ELSE IF Len(msgs) = 1 THEN msgs[1]
    ELSE msgs[1] \o sep \o join(Tail(msgs), sep)

\* the updates collected in the opposite order
ip_updates_reversed(ipv4, ipv6) == ipv6 \o ipv4

\* [ipv4, ipv6].into_iter().flatten().collect()
ip_updates_of(ipv4, ipv6) == ipv4 \o ipv6

\* the `ip` parameter taken for whichever family it parses as
ParseIpAnyFamily(param) ==
    IF param = None THEN [ok |-> TRUE, val |-> None]
    ELSE LET c == validate_and_classify_ip(param[1])
         IN  IF ~c.ok
             THEN [ok |-> FALSE,
                   response |-> json_response(400,
                                    "Invalid IPv4 address: " \o c.err)]
             ELSE [ok |-> TRUE, val |-> Some(IpUpdateNew(param[1], c.ip_type))]

\* the `ip` parameter: Some(update), None when absent, or a 400 response
ParseIp(param) ==
    IF param = None THEN [ok |-> TRUE, val |-> None]
    ELSE LET c == validate_and_classify_ip(param[1])
         IN  IF ~c.ok
             THEN [ok |-> FALSE,
                   response |-> json_response(400,
                                    "Invalid IPv4 address: " \o c.err)]
             ELSE IF c.ip_type = "V4"
             THEN [ok |-> TRUE, val |-> Some(IpUpdateNew(param[1], "V4"))]
             ELSE [ok |-> FALSE,
                   response |-> json_response(400,
    "IPv6 address provided in 'ip' parameter, use 'ipv6' parameter instead")]

\* the `ipv6` parameter
ParseIpv6(param) ==
    IF param = None THEN [ok |-> TRUE, val |-> None]
    ELSE LET c == validate_and_classify_ip(param[1])
         IN  IF ~c.ok
             THEN [ok |-> FALSE,
                   response |-> json_response(400,
                                    "Invalid IPv6 address: " \o c.err)]
             ELSE IF c.ip_type = "V6"
             THEN [ok |-> TRUE, val |-> Some(IpUpdateNew(param[1], "V6"))]
             ELSE [ok |-> FALSE,
                   response |-> json_response(400,
    "IPv4 address provided in 'ipv6' parameter, use 'ip' parameter instead")]

\* function_handler up to the loop: the 400 response, or what the loop needs
Validate(req) ==
    IF req.apikey = None
    THEN [ok |-> FALSE,
          response |-> json_response(400, "Missing query-parameter 'apikey'")]
    ELSE IF req.secretapikey = None
    THEN [ok |-> FALSE,
          response |-> json_response(400,
                           "Missing query-parameter 'secretapikey'")]
    ELSE IF req.domain = None
    THEN [ok |-> FALSE,
          response |-> json_response(400, "Missing query-parameter 'domain'")]
    ELSE LET ipv4 == ParseIp(req.ip)
             ipv6 == ParseIpv6(req.ipv6)
             dom == DomainNew(req.domain[1])
         IN  IF ~ipv4.ok THEN [ok |-> FALSE, response |-> ipv4.response]
             ELSE IF ~ipv6.ok THEN [ok |-> FALSE, response |-> ipv6.response]
             ELSE IF ipv4.val = None /\ ipv6.val = None
             THEN [ok |-> FALSE,
                   response |-> json_response(400,
                    "At least one IP address must be provided (ip or ipv6)")]
             ELSE IF ~dom.ok
             THEN [ok |-> FALSE,
                   response |-> json_response(400, "Invalid subdomain format")]
             ELSE [ok |-> TRUE,
                   ip_updates |-> ip_updates_of(ipv4.val, ipv6.val),
                   domain |-> dom,
                   credentials |-> [api_key |-> req.apikey[1],
                                    secret_key |-> req.secretapikey[1]]]

\* the response to a step that returned Err
failure_response(record_type) ==
    json_response(500, "Failed to process " \o record_type \o " record")

\* the match without the guard `if record.content == ip`
DecideUnguarded(existing, ip) ==
    IF existing = None THEN "create" ELSE "update"

\* the arm of the match in process_dns_record a lookup result selects
Decide(existing, ip) ==
    IF existing = None THEN "create"
    ELSE IF existing[1].content = ip THEN "noop"
    ELSE "update"

UpToDateMessage(record_type, rec) ==
    record_type \o " record " \o Debug(rec.name) \o " is already up to date"

UpdatedMessage(record_type, rec) ==
    record_type \o " record '" \o Debug(rec.name) \o "' updated successfully"

CreatedMessage(record_type, dom) ==
    record_type \o " record for subdomain '" \o Debug(dom.subdomain)
        \o "' successfully created"

--------------------------------------------------------------------------
(* State.                                                                  *)

VARIABLES
    zone,        \* the provider's records, in the order it returns them
    request,     \* the query parameters of the current invocation
    pc,          \* "idle", the call awaited ("lookup", "update", "create"),
                 \* or "done" once the response is returned
    domain,      \* Option<Domain>
    ip_updates,  \* Vec<IpUpdate>
    idx,         \* the position of the loop in ip_updates
    record,      \* the record the lookup returned, while it is updated
    results,     \* Vec<String>
    response,    \* Option<Response>
    calls,       \* the provider calls this invocation has issued, in order
    steps,       \* per address processed: what the provider answered and did
    zone0,       \* the zone when this invocation began
    prev         \* the invocation before: its name and the writes that took effect

vars == <<zone, request, pc, domain, ip_updates, idx, record, results,
          response, calls, steps, zone0, prev>>

NoRequest ==
    [apikey |-> None, secretapikey |-> None, domain |-> None,
     ip |-> None, ipv6 |-> None]

Init ==
    /\ zone \in InitZones
    /\ request = NoRequest
    /\ pc = "idle"
    /\ domain = None
    /\ ip_updates = <<>>
    /\ idx = 0
    /\ record = None
    /\ results = <<>>
    /\ response = None
    /\ calls = <<>>
    /\ steps = <<>>
    /\ zone0 = zone
    /\ prev = [name |-> None, took |-> [t \in RecordTypes |-> None]]

LookupCall(dom, record_type) ==
    [op |-> "retrieveByNameType", domain |-> dom.domain_name,
     subdomain |-> dom.subdomain, type |-> record_type,
     id |-> None, content |-> None]

EditCall(dom, record_id, body) ==
    [op |-> "edit", domain |-> dom.domain_name, subdomain |-> body.name,
     type |-> body.record_type, id |-> Some(record_id),
     content |-> Some(body.content)]

CreateCall(dom, body) ==
    [op |-> "create", domain |-> dom.domain_name, subdomain |-> body.name,
     type |-> body.record_type, id |-> None, content |-> Some(body.content)]

NewStep(ip_update) ==
    [record_type |-> ip_update.record_type,
     address |-> ip_update.address,
     lookup |-> "pending",     \* the reply to the lookup
     existing |-> None,        \* what get_existing_dns_record returned
     write |-> "none",         \* the write issued: "create" or "update"
     wreply |-> "none",        \* the reply to the write
     applied |-> FALSE,        \* whether the write took effect at the provider
     result |-> "pending"]     \* "Ok" or "Err" of process_dns_record

\* the address of each kind whose write took effect in this invocation
Took ==
    [t \in RecordTypes |->
        IF \E i \in 1..Len(steps) :
               steps[i].record_type = t /\ steps[i].applied
        THEN Some((CHOOSE st \in {steps[i] : i \in 1..Len(steps)} :
                       st.record_type = t /\ st.applied).address)
        ELSE None]

Credentials == [api_key |-> request.apikey[1],
                secret_key |-> request.secretapikey[1]]

--------------------------------------------------------------------------
(* Actions: each runs function_handler from one await to the next.         *)

\* function_handler, lines 34-130: validation, then the first lookup is sent
Invoke(req) ==
    /\ pc = "idle"
    /\ LET v == Validate(req)
       IN  /\ request' = req
           /\ IF v.ok
              THEN /\ domain' = Some(v.domain)
                   /\ ip_updates' = v.ip_updates
                   /\ idx' = 1
                   /\ pc' = "lookup"
                   /\ response' = None
                   /\ calls' = <<LookupCall(v.domain,
                                            v.ip_updates[1].record_type)>>
                   /\ steps' = <<NewStep(v.ip_updates[1])>>
              ELSE /\ domain' = None
                   /\ ip_updates' = <<>>
                   /\ idx' = 0
                   /\ pc' = "done"
                   /\ response' = Some(v.response)
                   /\ calls' = <<>>
                   /\ steps' = <<>>
    /\ UNCHANGED <<zone, record, results, zone0, prev>>

\* main: the runtime takes the response, the invocation's values are dropped
\* and the function waits for the next request
Deliver ==
    /\ pc = "done"
    /\ pc' = "idle"
    /\ prev' = [name |-> IF domain = None THEN None
                         ELSE Some(domain[1].qualified_name),
                took |-> Took]
    /\ request' = NoRequest
    /\ domain' = None
    /\ ip_updates' = <<>>
    /\ idx' = 0
    /\ record' = None
    /\ results' = <<>>
    /\ response' = None
    /\ calls' = <<>>
    /\ steps' = <<>>
    /\ zone0' = zone
    /\ UNCHANGED zone

\* a loop that sends the lookup of a failed step once more while the step
\* has made fewer than two calls
ReturnedRetryOnce(res, log, hist) ==
    IF ~res.ok /\ Len(log) < 2 * idx
    THEN /\ pc' = "lookup"
         /\ calls' = Append(log, LookupCall(domain[1],
                                            ip_updates[idx].record_type))
         /\ steps' = hist
         /\ UNCHANGED <<results, idx, response>>
    ELSE IF ~res.ok
    THEN /\ response' = Some(failure_response(ip_updates[idx].record_type))
         /\ pc' = "done"
         /\ calls' = log
         /\ steps' = [hist EXCEPT ![idx].result = "Err"]
         /\ UNCHANGED <<results, idx>>
    ELSE LET rs == Append(results, res.message)
             done == [hist EXCEPT ![idx].result = "Ok"]
         IN  /\ results' = rs
             /\ IF idx < Len(ip_updates)
                THEN /\ idx' = idx + 1
                     /\ pc' = "lookup"
                     /\ response' = None
                     /\ calls' = Append(log,
                           LookupCall(domain[1],
                                      ip_updates[idx + 1].record_type))
                     /\ steps' = Append(done, NewStep(ip_updates[idx + 1]))
                ELSE /\ idx' = idx
                     /\ pc' = "done"
                     /\ response' = Some(json_response(200, join(rs, "; ")))
                     /\ calls' = log
                     /\ steps' = done

\* a loop that, when a later step fails, asks the provider to delete the
\* record of the first step
ReturnedCompensating(res, log, hist) ==
    IF ~res.ok
    THEN /\ response' = Some(failure_response(ip_updates[idx].record_type))
         /\ pc' = "done"
         /\ calls' =
               IF idx > 1
               THEN Append(log,
                        [op |-> "delete", domain |-> domain[1].domain_name,
                         subdomain |-> domain[1].subdomain,
                         type |-> ip_updates[1].record_type,
                         id |-> None, content |-> None])
               ELSE log
         /\ steps' = [hist EXCEPT ![idx].result = "Err"]
         /\ UNCHANGED <<results, idx>>
    ELSE LET rs == Append(results, res.message)
             done == [hist EXCEPT ![idx].result = "Ok"]
         IN  /\ results' = rs
             /\ IF idx < Len(ip_updates)
                THEN /\ idx' = idx + 1
                     /\ pc' = "lookup"
                     /\ response' = None
                     /\ calls' = Append(log,
                           LookupCall(domain[1],
                                      ip_updates[idx + 1].record_type))
                     /\ steps' = Append(done, NewStep(ip_updates[idx + 1]))
                ELSE /\ idx' = idx
                     /\ pc' = "done"
                     /\ response' = Some(json_response(200, join(rs, "; ")))
                     /\ calls' = log
                     /\ steps' = done

\* function_handler, lines 132-154: the step for ip_updates[idx] returned
\* res; log and hist are the calls and steps so far
Returned(res, log, hist) ==
    IF ~res.ok
    THEN /\ response' = Some(failure_response(ip_updates[idx].record_type))
         /\ pc' = "done"
         /\ calls' = log
         /\ steps' = [hist EXCEPT ![idx].result = "Err"]
         /\ UNCHANGED <<results, idx>>
    ELSE LET rs == Append(results, res.message)
             done == [hist EXCEPT ![idx].result = "Ok"]
         IN  /\ results' = rs
             /\ IF idx < Len(ip_updates)
                THEN /\ idx' = idx + 1
                     /\ pc' = "lookup"
                     /\ response' = None
                     /\ calls' = Append(log,
                           LookupCall(domain[1],
                                      ip_updates[idx + 1].record_type))
                     /\ steps' = Append(done, NewStep(ip_updates[idx + 1]))
                ELSE /\ idx' = idx
                     /\ pc' = "done"
                     /\ response' = Some(json_response(200, join(rs, "; ")))
                     /\ calls' = log
                     /\ steps' = done

\* the lookup comes back: process_dns_record, lines 165-221
LookupReturn(reply) ==
    /\ pc = "lookup"
    /\ LET up == ip_updates[idx]
           dom == domain[1]
           records == IF reply = "SUCCESS"
                      THEN Some(retrieveByNameType(zone, dom.domain_name,
                                    up.record_type, dom.subdomain))
                      ELSE None
           got == get_existing_dns_record(dom, reply, records)
           hist == [steps EXCEPT ![idx].lookup = reply,
                                 ![idx].existing =
                                     IF got.ok THEN got.val ELSE None]
           body == CreateUpdateDnsRecordRequestNew(Credentials,
                       dom.subdomain, up.address, up.record_type)
       IN  IF ~got.ok
           THEN /\ Returned([ok |-> FALSE], calls, hist)
                /\ record' = None
           ELSE IF Decide(got.val, up.address) = "noop"
           THEN /\ Returned([ok |-> TRUE,
                             message |-> UpToDateMessage(up.record_type,
                                                         got.val[1])],
                            calls, hist)
                /\ record' = None
           ELSE IF Decide(got.val, up.address) = "update"
           THEN /\ pc' = "update"
                /\ record' = got.val
                /\ calls' = Append(calls, EditCall(dom, got.val[1].id, body))
                /\ steps' = [hist EXCEPT ![idx].write = "update",
                                         ![idx].wreply = "pending"]
                /\ UNCHANGED <<results, idx, response>>
           ELSE /\ pc' = "create"
                /\ record' = None
                /\ calls' = Append(calls, CreateCall(dom, body))
                /\ steps' = [hist EXCEPT ![idx].write = "create",
                                         ![idx].wreply = "pending"]
                /\ UNCHANGED <<results, idx, response>>
    /\ UNCHANGED <<zone, request, domain, ip_updates, zone0, prev>>

\* the edit comes back: process_dns_record, lines 189-194
UpdateReturn(o) ==
    /\ pc = "update"
    /\ LET up == ip_updates[idx]
           dom == domain[1]
           body == CreateUpdateDnsRecordRequestNew(Credentials,
                       dom.subdomain, up.address, up.record_type)
           hist == [steps EXCEPT ![idx].wreply = o.reply,
                                 ![idx].applied = o.applied]
           res == update_dns_record(o.reply)
       IN  /\ zone' = IF o.applied
                      THEN ProviderEdit(zone, dom.domain_name,
                                        record[1].id, body)
                      ELSE zone
           /\ Returned(IF res.ok
                       THEN [ok |-> TRUE,
                             message |-> UpdatedMessage(up.record_type,
                                                        record[1])]
                       ELSE [ok |-> FALSE],
                       calls, hist)
           /\ record' = None
    /\ UNCHANGED <<request, domain, ip_updates, zone0, prev>>

\* the create comes back: process_dns_record, lines 205-210
CreateReturn(o) ==
    /\ pc = "create"
    /\ o.applied => Len(zone) < MaxRecords
    /\ LET up == ip_updates[idx]
           dom == domain[1]
           body == CreateUpdateDnsRecordRequestNew(Credentials,
                       dom.subdomain, up.address, up.record_type)
           hist == [steps EXCEPT ![idx].wreply = o.reply,
                                 ![idx].applied = o.applied]
           res == create_dns_record(o.reply)
       IN  /\ zone' = IF o.applied
                      THEN ProviderCreate(zone, dom.domain_name, body)
                      ELSE zone
           /\ Returned(IF res.ok
                       THEN [ok |-> TRUE,
                             message |-> CreatedMessage(up.record_type, dom)]
                       ELSE [ok |-> FALSE],
                       calls, hist)
           /\ record' = None
    /\ UNCHANGED <<request, domain, ip_updates, zone0, prev>>

\* function_handler, lines 105-114, on its own: Domain::new on the name given
ExtractDomain ==
    /\ pc = "idle"
    /\ request.domain /= None
    /\ LET d == DomainNew(request.domain[1])
       IN  IF d.ok
           THEN domain' = Some(d) /\ response' = None
           ELSE /\ domain' = None
                /\ response' = Some(json_response(400,
                                        "Invalid subdomain format"))
    /\ pc' = "extracted"
    /\ UNCHANGED <<zone, request, ip_updates, idx, record, results, calls,
                   steps, zone0, prev>>

Next ==
    \/ \E req \in Requests : Invoke(req)
    \/ \E reply \in Replies : LookupReturn(reply)
    \/ \E o \in WriteOutcomes : UpdateReturn(o)
    \/ \E o \in WriteOutcomes : CreateReturn(o)
    \/ Deliver

Spec == Init /\ [][Next]_vars

\* Domain::new on every name of at most MaxNameLen characters over a, b and .
Alphabet == {"a", "b", "."}
Names == UNION {[1..n -> Alphabet] : n \in 0..MaxNameLen}

InitDomain ==
    /\ zone = <<>>
    /\ request \in {[NoRequest EXCEPT !.domain = Some(n)] : n \in Names}
    /\ pc = "idle"
    /\ domain = None
    /\ ip_updates = <<>>
    /\ idx = 0
    /\ record = None
    /\ results = <<>>
    /\ response = None
    /\ calls = <<>>
    /\ steps = <<>>
    /\ zone0 = zone
    /\ prev = [name |-> None, took |-> [t \in RecordTypes |-> None]]

NextDomain == ExtractDomain

SpecDomain == InitDomain /\ [][NextDomain]_vars

--------------------------------------------------------------------------
(* Address classification on its own.                                      *)

\* function_handler, lines 51-86: the two address parameters are classified
ClassifyParams ==
    /\ pc = "idle"
    /\ LET ipv4 == ParseIp(request.ip)
           ipv6 == ParseIpv6(request.ipv6)
       IN  IF ~ipv4.ok
           THEN response' = Some(ipv4.response) /\ ip_updates' = <<>>
           ELSE IF ~ipv6.ok
           THEN response' = Some(ipv6.response) /\ ip_updates' = <<>>
           ELSE /\ response' = None
                /\ ip_updates' = ip_updates_of(ipv4.val, ipv6.val)
    /\ pc' = "classified"
    /\ UNCHANGED <<zone, request, domain, idx, record, results, calls, steps,
                   zone0, prev>>

\* every string of at most MaxIpLen characters over 1 . : %, and the
\* literals of the tests of ip_utils.rs with some more
IpAlphabet == {"1", ".", ":", "%"}

SampleLiterals ==
    {<<"1", "9", "2", ".", "1", "6", "8", ".", "1", ".", "1">>,
     <<"1", "2", "7", ".", "0", ".", "0", ".", "1">>,
     <<"0", ".", "0", ".", "0", ".", "0">>,
     <<"2", "5", "5", ".", "2", "5", "5", ".", "2", "5", "5", ".", "2", "5", "5">>,
     <<"2", "0", "0", "1", ":", "d", "b", "8", ":", ":", "1">>,
     <<"f", "e", "8", "0", ":", ":", "1">>,
     <<"2", "0", "0", "1", ":", "0", "d", "b", "8", ":", "8", "5", "a", "3", ":", "0", "0", "0", "0", ":", "0", "0", "0", "0", ":", "8", "a", "2", "e", ":", "0", "3", "7", "0", ":", "7", "3", "3", "4">>,
     <<"2", "0", "0", "1", ":", "d", "b", "8", ":", "8", "5", "a", "3", ":", ":", "8", "a", "2", "e", ":", "3", "7", "0", ":", "7", "3", "3", "4">>,
     <<":", ":", "f", "f", "f", "f", ":", "1", ".", "2", ".", "3", ".", "4">>,
     <<"1", ":", "2", ":", "3", ":", "4", ":", "5", ":", "6", ":", "7", ":", "8">>,
     <<"1", ":", "2", ":", "3", ":", "4", ":", "5", ":", "6", ":", "1", ".", "2", ".", "3", ".", "4">>,
     <<"1", ":", "2", ":", "3", ":", "4", ":", "5", ":", "6", ":", "7", ":", ":">>,
     <<"2", "5", "6", ".", "1", ".", "1", ".", "1">>,
     <<"1", "9", "2", ".", "1", "6", "8", ".", "1">>,
     <<"n", "o", "t", "_", "a", "n", "_", "i", "p">>,
     <<"2", "0", "0", "1", ":", "d", "b", "8", ":", ":", "g", "1">>,
     <<"f", "e", "8", "0", ":", ":", "1", "%", "l", "o", "0">>,
     <<"0", "1", ".", "1", ".", "1", ".", "1">>,
     <<"1", ".", "1", ".", "1", ".", "0", "1">>,
     <<"1", ":", "2", ":", "3", ":", "4", ":", "5", ":", "6", ":", "7", ":", "8", ":", "9">>,
     <<"1", ":", "2", ":", "3", ":", "4", ":", "5", ":", "6", ":", "7", ":", "8", ":", ":">>,
     <<"1", "2", "3", "4", "5", ":", ":">>,
     <<"1", ".", "2", ".", "3", ".", "4", ":", ":">>,
     <<":", ":", "1", ".", "2", ".", "3", ".", "4", ":", "1">>}

IpStrings ==
    UNION {[1..n -> IpAlphabet] : n \in 0..MaxIpLen} \cup SampleLiterals

InitIp ==
    /\ zone = <<>>
    /\ request \in {[NoRequest EXCEPT !.ip = Some(a)] : a \in IpStrings}
                 \cup {[NoRequest EXCEPT !.ipv6 = Some(a)] : a \in IpStrings}
    /\ pc = "idle"
    /\ domain = None
    /\ ip_updates = <<>>
    /\ idx = 0
    /\ record = None
    /\ results = <<>>
    /\ response = None
    /\ calls = <<>>
    /\ steps = <<>>
    /\ zone0 = zone
    /\ prev = [name |-> None, took |-> [t \in RecordTypes |-> None]]

NextIp == ClassifyParams

SpecIp == InitIp /\ [][NextIp]_vars

--------------------------------------------------------------------------
(* What the sample requests are, stated without the parsers.               *)

SampleV4 == {V4a, V4b}
SampleV6 == {V6a, V6b}

WellFormed(r) ==
    /\ r.apikey /= None
    /\ r.secretapikey /= None
    /\ r.domain = Some(NameABC)
    /\ r.ip \in {None} \cup {Some(a) : a \in SampleV4}
    /\ r.ipv6 \in {None} \cup {Some(a) : a \in SampleV6}
    /\ ~(r.ip = None /\ r.ipv6 = None)

\* the address requested for a record type
Requested(r, t) == IF t = "A" THEN r.ip ELSE r.ipv6

\* the positions in calls of the writes for a record type
WriteCalls(t) ==
    {j \in 1..Len(calls) :
        calls[j].type = t /\ calls[j].op \in {"create", "edit"}}

LookupCalls(t) ==
    {j \in 1..Len(calls) :
        calls[j].type = t /\ calls[j].op = "retrieveByNameType"}

Status == IF response = None THEN 0 ELSE response[1].status
Message == IF response = None THEN "" ELSE response[1].body.message

--------------------------------------------------------------------------
(* Claims.                                                                 *)

\* C1: for every address processed, once the lookup has returned Ok the
\* write is chosen by its result alone: no record => exactly one create call
\* with the kind and the desired address and no edit; a record with the
\* desired content => no write call for that kind, nothing applied, and the
\* zone is as the invocation found it while no write was issued; a record
\* with another content => exactly one edit call, addressed to that
\* record's id, with the desired address, and no create.
C1_DecisionTable ==
    /\ \A i \in 1..Len(steps) :
        LET st == steps[i]
            t == st.record_type
            w == WriteCalls(t)
        IN  st.lookup \in {"ERROR", "SUCCESS"} =>
              /\ st.existing = None =>
                   /\ Cardinality(w) = 1
                   /\ \A j \in w :
                        /\ calls[j].op = "create"
                        /\ calls[j].content = Some(st.address)
                        /\ calls[j].content = Requested(request, t)
                        /\ calls[j].subdomain = domain[1].subdomain
                        /\ calls[j].domain = domain[1].domain_name
              /\ (st.existing /= None
                  /\ st.existing[1].content = st.address) =>
                   /\ w = {}
                   /\ st.write = "none"
                   /\ ~st.applied
                   /\ st.result = "Ok"
              /\ (st.existing /= None
                  /\ st.existing[1].content /= st.address) =>
                   /\ Cardinality(w) = 1
                   /\ \A j \in w :
                        /\ calls[j].op = "edit"
                        /\ calls[j].id = Some(st.existing[1].id)
                        /\ calls[j].content = Some(st.address)
                        /\ calls[j].content = Requested(request, t)
    /\ (\A t \in RecordTypes : WriteCalls(t) = {}) => zone = zone0

\* C1 witness: one invocation updated the A record and created the AAAA one
C1_Witness ==
    /\ pc = "done"
    /\ Len(steps) = 2
    /\ steps[1].existing /= None
    /\ steps[1].write = "update"
    /\ steps[2].lookup = "SUCCESS"
    /\ steps[2].existing = None
    /\ steps[2].write = "create"
    /\ Status = 200

\* C2: a create or update the provider did not accept (no decodable
\* response, or a response of status ERROR) makes the operation for that
\* address fail, and the invocation does not answer 200.
C2_RejectedWriteFails ==
    \A i \in 1..Len(steps) :
        (steps[i].write /= "none" /\ steps[i].wreply \in {"err", "ERROR"}) =>
            /\ steps[i].result = "Err"
            /\ Status /= 200

\* C3: a failed lookup (no decodable response, or status ERROR) is a
\* provider error for that address, and a create is issued only after a
\* lookup that succeeded and returned no matching record.
C3_FailedLookupIsError ==
    \A i \in 1..Len(steps) :
        /\ steps[i].lookup \in {"err", "ERROR"} =>
              steps[i].result = "Err" /\ steps[i].write = "none"
        /\ steps[i].write = "create" => steps[i].lookup = "SUCCESS"

\* C4: a request that is not well formed (a missing apikey, secretapikey or
\* domain, a malformed name, a malformed or wrong-family address, no
\* address) is answered 400, and whenever the answer is 400 no lookup,
\* create or update call was made and the zone is unchanged.
C4_ValidationBeforeProvider ==
    /\ (pc /= "idle" /\ ~WellFormed(request)) => Status = 400
    /\ Status = 400 =>
        /\ ~WellFormed(request)
        /\ calls = <<>>
        /\ steps = <<>>
        /\ zone = zone0
        /\ pc = "done"

\* C4 witness: the two-label name b.c with a valid address was answered 400
C4_Witness ==
    /\ Status = 400
    /\ request.domain = Some(NameBC)
    /\ request.ip = Some(V4a)
    /\ request.apikey /= None
    /\ request.secretapikey /= None
    /\ calls = <<>>

\* C5: the IPv4 address is processed before the IPv6 address (no call for
\* the A record follows a call for the AAAA record), and processing stops
\* at the first failing address: when the step for the A record returns
\* Err, the invocation answers 500 naming the A record, no call of any
\* kind was made for the AAAA record and no outcome was recorded.
C5_Ipv4FirstStopAtFailure ==
    /\ \A i, j \in 1..Len(calls) :
         (i < j /\ calls[i].type = "AAAA") => calls[j].type = "AAAA"
    /\ (request.ip /= None /\ steps /= <<>>) => steps[1].record_type = "A"
    /\ \A i \in 1..Len(steps) :
         (steps[i].record_type = "A" /\ steps[i].result = "Err") =>
            /\ Status = 500
            /\ Message = "Failed to process A record"
            /\ pc = "done"
            /\ \A j \in 1..Len(calls) : calls[j].type = "A"
            /\ Len(steps) = 1
            /\ results = <<>>
    /\ Message = "Failed to process A record" =>
         /\ \A j \in 1..Len(calls) : calls[j].type = "A"
         /\ results = <<>>

\* C5 witness: both addresses were supplied and the create for the A record
\* came back without a decodable response
C5_Witness ==
    /\ pc = "done"
    /\ request.ip = Some(V4a)
    /\ request.ipv6 = Some(V6a)
    /\ Len(steps) = 1
    /\ steps[1].write = "create"
    /\ steps[1].wreply = "err"
    /\ Status = 500

\* C6: when a write for a kind took effect in the invocation before, and
\* this invocation asks for the same name and the same address and its
\* lookup is answered with SUCCESS, it finds the record up to date and
\* issues no write for that kind.
C6_SecondInvocationNoOp ==
    \A i \in 1..Len(steps) :
        LET st == steps[i]
        IN  (/\ prev.took[st.record_type] = Some(st.address)
             /\ prev.name = Some(domain[1].qualified_name)
             /\ st.lookup = "SUCCESS") =>
                /\ st.existing /= None
                /\ st.existing[1].content = st.address
                /\ st.write = "none"
                /\ WriteCalls(st.record_type) = {}
                /\ Cardinality(LookupCalls(st.record_type)) = 1

\* the provider calls that failed, at the transport or by status
ProviderStepFailed ==
    \E i \in 1..Len(steps) :
        \/ steps[i].lookup \in {"err", "ERROR"}
        \/ steps[i].wreply \in {"err", "ERROR"}

\* C7: an invocation ends with one response: 400 exactly when the request
\* is not well formed, 500 exactly when a lookup, create or update failed
\* for some requested address, 200 otherwise; a 500 carries only the
\* generic message.
C7_StatusByFailureClass ==
    pc = "done" =>
        /\ response /= None
        /\ Status \in {200, 400, 500}
        /\ Status = 400 <=> ~WellFormed(request)
        /\ Status = 500 <=> ProviderStepFailed
        /\ Status = 500 =>
              Message \in {"Failed to process A record",
                           "Failed to process AAAA record"}

\* the addresses a request asks for, IPv4 first
RequestedKinds(r) ==
    (IF r.ip = None THEN <<>> ELSE <<"A">>)
        \o (IF r.ipv6 = None THEN <<>> ELSE <<"AAAA">>)

OutcomeMessages(t) ==
    {t \o " record \"a.b.c\" is already up to date",
     t \o " record '\"a.b.c\"' updated successfully",
     t \o " record for subdomain '\"a\"' successfully created"}

\* C8: a 200 response is given only when every requested address reached
\* an outcome: there is one outcome message per requested address, IPv4
\* first, each an up-to-date, updated or created message of its kind, and
\* the response's message is these joined with "; "; when a step returned
\* Err the response is not 200.
C8_SummaryOnlyWhenAllSucceed ==
    /\ Status = 200 =>
        LET kinds == RequestedKinds(request)
        IN  /\ pc = "done"
            /\ Len(results) = Len(kinds)
            /\ Len(steps) = Len(kinds)
            /\ \A i \in 1..Len(kinds) :
                 /\ results[i] \in OutcomeMessages(kinds[i])
                 /\ steps[i].record_type = kinds[i]
                 /\ steps[i].result = "Ok"
            /\ Message = IF Len(results) = 1 THEN results[1]
                         ELSE results[1] \o "; " \o results[2]
    /\ (\E i \in 1..Len(steps) : steps[i].result = "Err") =>
          Status = 500

\* C8 witness: both addresses were asked for and answered with a summary
C8_Witness ==
    /\ Status = 200
    /\ Len(results) = 2
    /\ Message = "A record \"a.b.c\" is already up to date; "
                   \o "AAAA record for subdomain '\"a\"' successfully created"

Ipv6InIpMessage ==
    "IPv6 address provided in 'ip' parameter, use 'ipv6' parameter instead"

Ipv4InIpv6Message ==
    "IPv4 address provided in 'ipv6' parameter, use 'ip' parameter instead"

\* C9: with the credentials and the name present, a valid IPv6 literal in
\* `ip` is answered 400 with the message naming the `ipv6` parameter, and
\* (the `ip` parameter being absent or a valid IPv4 literal) a valid IPv4
\* literal in `ipv6` is answered 400 with the message naming the `ip`
\* parameter; no provider call is made, and no call ever carries an
\* address of the other family for its record type.
C9_WrongFamilyRejected ==
    /\ (/\ pc /= "idle"
        /\ request.apikey /= None
        /\ request.secretapikey /= None
        /\ request.domain /= None) =>
          /\ request.ip \in {Some(a) : a \in SampleV6} =>
               /\ Status = 400
               /\ Message = Ipv6InIpMessage
               /\ calls = <<>>
               /\ zone = zone0
          /\ (/\ request.ipv6 \in {Some(a) : a \in SampleV4}
              /\ request.ip \in {None} \cup {Some(a) : a \in SampleV4}) =>
               /\ Status = 400
               /\ Message = Ipv4InIpv6Message
               /\ calls = <<>>
               /\ zone = zone0
    /\ \A j \in 1..Len(calls) :
          calls[j].content /= None =>
             /\ calls[j].type = "A" => calls[j].content[1] \in SampleV4
             /\ calls[j].type = "AAAA" => calls[j].content[1] \in SampleV6

\* C9 witness: 1.1.1.1 was given as `ipv6` next to a valid `ip`
C9_Witness ==
    /\ pc = "done"
    /\ request.ip = Some(V4b)
    /\ request.ipv6 = Some(V4a)
    /\ request.domain = Some(NameABC)
    /\ Status = 400
    /\ Message = Ipv4InIpv6Message

Dots(n) == {i \in 1..Len(n) : n[i] = "."}

HasEmptyLabel(n) ==
    \/ n = <<>>
    \/ n[1] = "."
    \/ n[Len(n)] = "."
    \/ \E i \in 1..(Len(n) - 1) : n[i] = "." /\ n[i + 1] = "."

\* the position of the last dot but one
ZoneDot(n) ==
    LET last == CHOOSE i \in Dots(n) : \A j \in Dots(n) : j <= i
        rest == Dots(n) \ {last}
    IN  CHOOSE i \in rest : \A j \in rest : j <= i

\* C10: Domain::new fails exactly when the name has fewer than 3 labels
\* (fewer than 2 dots) or an empty label (it is empty, starts or ends with
\* a dot, or has two dots in a row); otherwise the zone is what follows the
\* last dot but one, the host is what precedes it and is not empty, and
\* host + "." + zone is the name given.
C10_DomainNew ==
    pc = "extracted" =>
        LET n == request.domain[1]
        IN  /\ domain = None <=>
                 (Cardinality(Dots(n)) < 2 \/ HasEmptyLabel(n))
            /\ domain /= None =>
                 LET d == domain[1]
                     k == ZoneDot(n)
                 IN  /\ d.domain_name = SubSeq(n, k + 1, Len(n))
                     /\ d.subdomain = SubSeq(n, 1, k - 1)
                     /\ d.subdomain /= <<>>
                     /\ Cardinality(Dots(d.domain_name)) = 1
                     /\ d.subdomain \o <<".">> \o d.domain_name = n
                     /\ d.qualified_name = n

\* C10 witness: a.b.a.b was split into the host a.b and the zone a.b
C10_Witness ==
    /\ pc = "extracted"
    /\ request.domain = Some(<<"a", ".", "b", ".", "a", ".", "b">>)
    /\ domain /= None
    /\ domain[1].subdomain = <<"a", ".", "b">>
    /\ domain[1].domain_name = <<"a", ".", "b">>

--------------------------------------------------------------------------
(* Address literals, stated by their form rather than by parsing.          *)

DecChars == <<"0", "1", "2", "3", "4", "5", "6", "7", "8", "9">>

\* the decimal text of a number below 1000
DecStr(n) ==
    IF n < 10 THEN <<DecChars[n + 1]>>
    ELSE IF n < 100 THEN <<DecChars[(n \div 10) + 1], DecChars[(n % 10) + 1]>>
    ELSE <<DecChars[(n \div 100) + 1], DecChars[((n \div 10) % 10) + 1],
           DecChars[(n % 10) + 1]>>

OctetStrings == {DecStr(n) : n \in 0..255}

\* the fields between the occurrences of c, found from the right
RECURSIVE FieldsOf(_, _)
FieldsOf(s, c) ==
    LET at == {i \in 1..Len(s) : s[i] = c}
    IN  IF at = {} THEN <<s>>
        ELSE LET p == CHOOSE i \in at : \A j \in at : j <= i
             IN  Append(FieldsOf(SubSeq(s, 1, p - 1), c),
                        SubSeq(s, p + 1, Len(s)))

\* four decimal octets joined by dots
FormV4(s) ==
    LET f == FieldsOf(s, ".")
    IN  Len(f) = 4 /\ \A i \in 1..4 : f[i] \in OctetStrings

FormHexChars ==
    {"0", "1", "2", "3", "4", "5", "6", "7", "8", "9",
     "a", "b", "c", "d", "e", "f", "A", "B", "C", "D", "E", "F"}

FormGroup(g) == Len(g) \in 1..4 /\ \A i \in 1..Len(g) : g[i] \in FormHexChars

\* colon-separated fields: hexadecimal groups, the last possibly a dotted
\* IPv4 address standing for two groups; either 8 groups and no empty field,
\* or one "::" (an empty field inside, or two at an end, or "::" alone) and
\* at most 7 groups
FormV6(s) ==
    LET f == FieldsOf(s, ":")
        n == Len(f)
        empty == {i \in 1..n : f[i] = <<>>}
        full == (1..n) \ empty
        v4last == n \in full /\ FormV4(f[n])
        groups == Cardinality(full) + (IF v4last THEN 1 ELSE 0)
    IN  /\ \A i \in full : FormGroup(f[i]) \/ (i = n /\ v4last)
        /\ \/ empty = {} /\ groups = 8
           \/ /\ groups <= 7
              /\ \/ \E i \in 2..(n - 1) : empty = {i}
                 \/ n >= 3 /\ empty = {1, 2}
                 \/ n >= 3 /\ empty = {n - 1, n}
                 \/ n = 3 /\ empty = {1, 2, 3}

\* C11: every valid IPv4 literal is classified V4 and every valid IPv6
\* literal V6, every other string (a zone-id suffix included) is a
\* validation failure; the update built from a V4 address has kind A and
\* the one built from a V6 address kind AAAA, so the `ip` parameter yields
\* an A update exactly for IPv4 literals and the `ipv6` parameter an AAAA
\* update exactly for IPv6 literals, and nothing else becomes an update.
C11_ClassifyAndKind ==
    pc = "classified" =>
        /\ request.ip /= None =>
             LET a == request.ip[1]
             IN  /\ FormV4(a) =>
                      /\ response = None
                      /\ ip_updates = <<[address |-> a, record_type |-> "A"]>>
                 /\ FormV6(a) =>
                      /\ Status = 400
                      /\ Message = Ipv6InIpMessage
                      /\ ip_updates = <<>>
                 /\ (~FormV4(a) /\ ~FormV6(a)) =>
                      /\ Status = 400
                      /\ Message = "Invalid IPv4 address: Invalid IP address: "
                                     \o ToStr(a)
                      /\ ip_updates = <<>>
        /\ request.ipv6 /= None =>
             LET a == request.ipv6[1]
             IN  /\ FormV6(a) =>
                      /\ response = None
                      /\ ip_updates =
                           <<[address |-> a, record_type |-> "AAAA"]>>
                 /\ FormV4(a) =>
                      /\ Status = 400
                      /\ Message = Ipv4InIpv6Message
                      /\ ip_updates = <<>>
                 /\ (~FormV4(a) /\ ~FormV6(a)) =>
                      /\ Status = 400
                      /\ Message = "Invalid IPv6 address: Invalid IP address: "
                                     \o ToStr(a)
                      /\ ip_updates = <<>>

\* C11 witness: 2001:db8::1 given as `ipv6` became an AAAA update
C11_Witness ==
    /\ pc = "classified"
    /\ request.ipv6 = Some(<<"2", "0", "0", "1", ":", "d", "b", "8", ":", ":", "1">>)
    /\ ip_updates = <<[address |-> <<"2", "0", "0", "1", ":", "d", "b", "8", ":", ":", "1">>,
                       record_type |-> "AAAA"]>>

\* the first record of z, in z's order, with this name and this kind
FirstOfNameAndKind(z, name, type) ==
    IF \E i \in 1..Len(z) : z[i].name = name /\ z[i].type = type
    THEN Some(z[CHOOSE i \in 1..Len(z) :
                  /\ z[i].name = name /\ z[i].type = type
                  /\ \A j \in 1..(i - 1) :
                        ~(z[j].name = name /\ z[j].type = type)])
    ELSE None

Processed == {ip_updates[k].record_type : k \in 1..idx}

\* C13: within one invocation there is exactly one lookup for each kind the
\* loop has reached and none for any other kind, at most one write per kind,
\* issued right after that kind's lookup, every call addresses the requested
\* name, and so there are at most two calls per requested address; no call
\* is made for a kind whose address the request does not carry.
C13_OneLookupOneWrite ==
    /\ \A t \in RecordTypes :
          /\ Cardinality(LookupCalls(t)) = (IF t \in Processed THEN 1 ELSE 0)
          /\ Cardinality(WriteCalls(t)) <= 1
          /\ \A w \in WriteCalls(t) : w > 1 /\ (w - 1) \in LookupCalls(t)
          /\ Requested(request, t) = None =>
                \A j \in 1..Len(calls) : calls[j].type /= t
    /\ \A j \in 1..Len(calls) :
          /\ domain /= None
          /\ calls[j].domain = domain[1].domain_name
          /\ calls[j].subdomain = domain[1].subdomain
    /\ Len(calls) <= 2 * Len(RequestedKinds(request))
    /\ ~WellFormed(request) => calls = <<>>

\* C13 witness: a request for both addresses ended after a step failed, with
\* one lookup and one write made for each kind
C13_Witness ==
    /\ pc = "done"
    /\ Status = 500
    /\ request.ip /= None /\ request.ipv6 /= None
    /\ Len(calls) = 4
    /\ \A t \in RecordTypes :
          Cardinality(LookupCalls(t)) = 1 /\ Cardinality(WriteCalls(t)) = 1

\* the IPv4 step returned Ok and the IPv6 step then returned Err
Ipv4OkThenIpv6Err ==
    /\ pc = "done"
    /\ Len(steps) = 2
    /\ steps[1].record_type = "A" /\ steps[1].result = "Ok"
    /\ steps[2].record_type = "AAAA" /\ steps[2].result = "Err"

\* the A record the IPv4 step wrote: the record it updated, or the record
\* added to the zone the invocation started with
WrittenByIpv4Step ==
    {j \in 1..Len(zone) :
        /\ zone[j].type = "A"
        /\ zone[j].name = domain[1].qualified_name
        /\ IF steps[1].write = "update"
           THEN zone[j].id = steps[1].existing[1].id
           ELSE \A k \in 1..Len(zone0) : zone0[k].id /= zone[j].id}

\* C14: when the IPv4 step succeeded and the IPv6 step then failed, the
\* response is 500 for the AAAA record, every call about the A record was
\* made before the AAAA lookup and nothing but lookups, creates and edits
\* was sent (no compensating call), and if the IPv4 step's write took
\* effect the A record it wrote still holds the requested IPv4 address.
C14_NoRollback ==
    Ipv4OkThenIpv6Err =>
        /\ Status = 500
        /\ Message = "Failed to process AAAA record"
        /\ \A j \in 1..Len(calls) :
              /\ calls[j].op \in {"retrieveByNameType", "create", "edit"}
              /\ calls[j].type = "A" =>
                    \A l \in LookupCalls("AAAA") : j < l
        /\ steps[1].applied =>
              /\ Cardinality(WrittenByIpv4Step) = 1
              /\ \A j \in WrittenByIpv4Step :
                    zone[j].content = request.ip[1]

\* C14 witness: the IPv4 step created the A record, the IPv6 step failed,
\* and the invocation ended
C14_Witness ==
    /\ Ipv4OkThenIpv6Err
    /\ steps[1].write = "create"
    /\ steps[1].applied
    /\ \E j \in 1..Len(zone) :
          zone[j].type = "A" /\ zone[j].content = request.ip[1]
                             /\ zone[j].name = domain[1].qualified_name

\* the zone holds at most one record for each name and kind
OnePerNameAndKind(z) ==
    \A i, j \in 1..Len(z) :
        (z[i].name = z[j].name /\ z[i].type = z[j].type) => i = j

\* an edit that takes effect neither adds a record nor changes any
\* record's id
UpdateKeepsRecords ==
    [][pc = "update" =>
          /\ Len(zone') = Len(zone)
          /\ \A i \in 1..Len(zone) : zone'[i].id = zone[i].id]_vars

\* C15: starting from a zone with at most one record per qualified name and
\* kind, invocations run one after another leave at most one record per
\* qualified name and kind.
C15_OneRecordPerNameAndKind == OnePerNameAndKind(zone)

====
